---- MODULE Spec2Model ----
(***************************************************************************)
(* A model of dbx/utils/common.py: the JSON store (read_json, write_json,  *)
(* update_json), the three project files built on it (ContextLockFile,     *)
(* InfoFile, DeploymentFile), the legacy API shim with its retry policy,   *)
(* prepare_environment and FileUploader.upload_file.                       *)
(***************************************************************************)
EXTENDS Integers, Sequences, FiniteSets, TLC

VARIABLES dirs, files, call, lastSet, written,
          fn, pc, tries, delay, sleeps, requests, result,
          ppc, penv, edata, ctype, trace, presult, envVars, profiles, experiments

fileVars == <<dirs, files, call, lastSet, written>>

apiVars == <<fn, pc, tries, delay, sleeps, requests, result>>

prepVars == <<ppc, penv, edata, ctype, trace, presult, envVars, profiles, experiments>>

vars == <<fileVars, apiVars, prepVars>>

(***************************************************************************)
(* Python values.  A JSON value is a string or a dict; a dict is the       *)
(* insertion-ordered sequence of its <<key, value>> items.                 *)
(***************************************************************************)
None == [none |-> TRUE]

Str(s) == [str |-> s]

Dict(items) == [items |-> items]

IsDict(v) == DOMAIN v = {"items"}

IsStr(v) == DOMAIN v = {"str"}

Returned(v) == [returned |-> v]

Raised(e) == [raised |-> e]

IsRaised(o) == DOMAIN o = {"raised"}

IsReturned(o) == DOMAIN o = {"returned"}

\* keys of a dict, as a set
Keys(d) == {d.items[i][1] : i \in 1..Len(d.items)}

\* d[k] for a key the dict holds
Item(d, k) == d.items[CHOOSE i \in 1..Len(d.items) : d.items[i][1] = k][2]

\* d.get(k)
DictGet(d, k) == IF k \in Keys(d) THEN Item(d, k) ELSE None

\* d[k] = v: the value is replaced in place, a new key goes to the end
SetItem(d, k, v) ==
    IF k \in Keys(d)
      THEN Dict([i \in 1..Len(d.items) |->
                    IF d.items[i][1] = k THEN <<k, v>> ELSE d.items[i]])
      ELSE Dict(Append(d.items, <<k, v>>))

RECURSIVE UpdateFrom(_, _, _)
UpdateFrom(d, m, i) ==
    IF i > Len(m.items) THEN d
    ELSE UpdateFrom(SetItem(d, m.items[i][1], m.items[i][2]), m, i + 1)

\* a merge that descends into nested dicts instead of replacing them
RECURSIVE DeepUpdateFrom(_, _, _)
DeepUpdateFrom(d, m, i) ==
    IF i > Len(m.items) THEN d
    ELSE LET k == m.items[i][1]
             v == m.items[i][2]
             old == DictGet(d, k)
         IN  DeepUpdateFrom(
                 SetItem(d, k, IF IsDict(old) /\ IsDict(v)
                                 THEN DeepUpdateFrom(old, v, 1) ELSE v),
                 m, i + 1)

DictUpdateDeep(d, m) == DeepUpdateFrom(d, m, 1)

\* d.update(m): every item of m is assigned into d, in m's order
DictUpdate(d, m) == UpdateFrom(d, m, 1)

\* Python's == on dicts: the same keys with the same values, in any order
RECURSIVE PyEq(_, _)
PyEq(a, b) ==
    IF IsDict(a) /\ IsDict(b)
      THEN /\ Keys(a) = Keys(b)
           /\ \A k \in Keys(a) : PyEq(Item(a, k), Item(b, k))
      ELSE /\ DOMAIN a = DOMAIN b
           /\ a = b

(***************************************************************************)
(* json.dump and json.load.  A file holds the text json.dump wrote, as a   *)
(* sequence of tokens; json.load parses it back.                           *)
(***************************************************************************)
Tok(t, s) == [t |-> t, s |-> s]

RECURSIVE Dump(_)
RECURSIVE DumpItems(_)
Dump(v) ==
    IF IsStr(v) THEN <<Tok("str", v.str)>>
    ELSE <<Tok("{", "")>> \o DumpItems(v.items) \o <<Tok("}", "")>>

DumpItems(items) ==
    IF items = <<>> THEN <<>>
    ELSE <<Tok("key", items[1][1])>> \o Dump(items[1][2]) \o DumpItems(Tail(items))

RECURSIVE ParseValue(_, _)
RECURSIVE ParseItems(_, _, _)
ParseValue(toks, i) ==
    IF toks[i].t = "str" THEN [val |-> Str(toks[i].s), next |-> i + 1]
    ELSE ParseItems(toks, i + 1, Dict(<<>>))

ParseItems(toks, i, acc) ==
    IF toks[i].t = "}" THEN [val |-> acc, next |-> i + 1]
    ELSE LET r == ParseValue(toks, i + 1)
         IN  ParseItems(toks, r.next, SetItem(acc, toks[i].s, r.val))

Load(toks) == ParseValue(toks, 1).val

(***************************************************************************)
(* The file system: the directories that exist and the files that exist,   *)
(* each file with its text.                                                *)
(***************************************************************************)
DBX_PATH == ".dbx"

CONF_PATH == "conf"

INFO_FILE_PATH == ".dbx/project.json"

LOCK_FILE_PATH == ".dbx/lock.json"

DEFAULT_DEPLOYMENT_FILE_PATH == "conf/deployment.json"

Paths == {INFO_FILE_PATH, LOCK_FILE_PATH, DEFAULT_DEPLOYMENT_FILE_PATH}

Parent(p) == IF p = DEFAULT_DEPLOYMENT_FILE_PATH THEN CONF_PATH ELSE DBX_PATH

Exists(fs, p) == p \in DOMAIN fs

Put(fs, p, text) == [q \in DOMAIN fs \cup {p} |-> IF q = p THEN text ELSE fs[q]]

\* the outcome of a function that touches the files: the files it leaves and
\* what it returned or raised
Outcome(fs, out) == [fs |-> fs, out |-> out]

read_json(fs, file_path) ==
    IF Exists(fs, file_path) THEN Returned(Load(fs[file_path]))
    ELSE Raised("FileNotFoundError")

write_json(ds, fs, content, file_path) ==
    IF Parent(file_path) \in ds
      THEN Outcome(Put(fs, file_path, Dump(content)), Returned(None))
      ELSE Outcome(fs, Raised("FileNotFoundError"))

\* update_json without its except clause: a missing file is an error
update_json_nocatch(ds, fs, new_content, file_path) ==
    LET r == read_json(fs, file_path)
    IN  IF IsRaised(r) THEN Outcome(fs, r)
        ELSE write_json(ds, fs, DictUpdate(r.returned, new_content), file_path)

update_json(ds, fs, new_content, file_path) ==
    LET r == read_json(fs, file_path)
        content == IF IsRaised(r) THEN Dict(<<>>) ELSE r.returned
    IN  write_json(ds, fs, DictUpdate(content, new_content), file_path)

(***************************************************************************)
(* ContextLockFile, DeploymentFile and InfoFile.                           *)
(***************************************************************************)
get_context(fs) ==
    IF Exists(fs, LOCK_FILE_PATH)
      THEN Returned(DictGet(read_json(fs, LOCK_FILE_PATH).returned, "context_id"))
      ELSE Returned(None)

set_context(ds, fs, context_id) ==
    update_json(ds, fs, Dict(<<<<"context_id", Str(context_id)>>>>), LOCK_FILE_PATH)

\* get_environment with a default: an absent entry reads as an empty dict
get_environment_default(fs, path, environment) ==
    LET r == read_json(fs, path)
    IN  IF IsRaised(r) THEN r
        ELSE IF environment \in Keys(r.returned)
               THEN Returned(Item(r.returned, environment))
               ELSE Returned(Dict(<<>>))

get_environment(fs, path, environment) ==
    LET r == read_json(fs, path)
    IN  IF IsRaised(r) THEN r ELSE Returned(DictGet(r.returned, environment))

\* update_environment writing the file anew instead of merging into it
update_environment_overwrite(ds, fs, path, environment, content) ==
    LET r == get_environment(fs, path, environment)
    IN  IF IsRaised(r) THEN Outcome(fs, r)
        ELSE IF ~IsDict(r.returned) THEN Outcome(fs, Raised("AttributeError"))
        ELSE write_json(ds, fs,
                 Dict(<<<<environment, DictUpdate(r.returned, content)>>>>), path)

update_environment(ds, fs, path, environment, content) ==
    LET r == get_environment(fs, path, environment)
    IN  IF IsRaised(r) THEN Outcome(fs, r)
        ELSE IF ~IsDict(r.returned) THEN Outcome(fs, Raised("AttributeError"))
        ELSE update_json(ds, fs,
                 Dict(<<<<environment, DictUpdate(r.returned, content)>>>>), path)

\* the two directories and the files, as the steps of initialize pass them on
Disk(ds, fs) == [ds |-> ds, fs |-> fs]

_create_dir(d) == Disk(d.ds \cup {DBX_PATH}, d.fs)

\* the deployment template shipped with the package
Template == Dict(<<<<"default", Dict(<<<<"jobs", Str("[]")>>>>)>>>>)

_create_deployment_file(d) ==
    LET ds == d.ds \cup {CONF_PATH}
    IN  IF Exists(d.fs, DEFAULT_DEPLOYMENT_FILE_PATH) THEN Disk(ds, d.fs)
        ELSE Disk(ds, Put(d.fs, DEFAULT_DEPLOYMENT_FILE_PATH, Dump(Template)))

\* _create_lock_file without its existence test
_create_lock_file_always(d) ==
    Disk(d.ds, Put(d.fs, LOCK_FILE_PATH, <<Tok("{", ""), Tok("}", "")>>))

_create_lock_file(d) ==
    IF Exists(d.fs, LOCK_FILE_PATH) THEN d
    ELSE Disk(d.ds, Put(d.fs, LOCK_FILE_PATH, <<Tok("{", ""), Tok("}", "")>>))

init_content == Dict(<<<<"environments", Dict(<<>>)>>>>)

initialize(d) ==
    LET d3 == _create_lock_file(_create_deployment_file(_create_dir(d)))
        w  == write_json(d3.ds, d3.fs, init_content, INFO_FILE_PATH)
    IN  [ds |-> d3.ds, fs |-> w.fs, out |-> w.out]

info_update(ds, fs, content) == update_json(ds, fs, content, INFO_FILE_PATH)

info_get(fs, item) ==
    IF ~Exists(fs, INFO_FILE_PATH) THEN Raised("Exception")
    ELSE Returned(DictGet(read_json(fs, INFO_FILE_PATH).returned, item))

(***************************************************************************)
(* The calls.  call records the last call made: the operation, its string  *)
(* argument (a path, a context id, an environment, an item), its dict      *)
(* argument, whether the file it works on existed when it was made, and    *)
(* what it returned or raised.                                             *)
(***************************************************************************)
Call(op, key, val, had, out) ==
    [op |-> op, key |-> key, val |-> val, had |-> had, out |-> out]

NoCall == Call("none", "", None, FALSE, Returned(None))

\* no call of the API shim or of the uploader made or under way
ApiIdle ==
    /\ fn = "none"
    /\ pc = "idle"
    /\ tries = 0
    /\ delay = 0
    /\ sleeps = <<>>
    /\ requests = <<>>
    /\ result = Returned(None)

\* prepare_environment not called, on a machine with no credentials
PrepIdle ==
    /\ ppc = "idle"
    /\ penv = ""
    /\ edata = None
    /\ ctype = ""
    /\ trace = <<>>
    /\ presult = Returned(None)
    /\ envVars = FALSE
    /\ profiles = {}
    /\ experiments = {}

\* the maps the store is called with
EnvA == Dict(<<<<"profile", Str("DEFAULT")>>, <<"workspace_dir", Str("/dbx/a")>>>>)

EnvB == Dict(<<<<"workspace_dir", Str("/dbx/b")>>>>)

StoreMaps ==
    { Dict(<<>>),
      Dict(<<<<"a", Str("1")>>>>),
      Dict(<<<<"b", Str("2")>>, <<"a", Str("2")>>>>),
      Dict(<<<<"a", EnvA>>>>),
      Dict(<<<<"a", EnvB>>>>) }

WriteJson(M, P) ==
    LET w == write_json(dirs, files, M, P)
    IN  /\ files' = w.fs
        /\ call' = Call("write_json", P, M, Exists(files, P), w.out)
        /\ UNCHANGED <<dirs, lastSet, written, apiVars, prepVars>>

UpdateJson(M, P) ==
    LET w == update_json(dirs, files, M, P)
    IN  /\ files' = w.fs
        /\ call' = Call("update_json", P, M, Exists(files, P), w.out)
        /\ UNCHANGED <<dirs, lastSet, written, apiVars, prepVars>>

ReadJson(P) ==
    /\ call' = Call("read_json", P, None, Exists(files, P), read_json(files, P))
    /\ UNCHANGED <<dirs, files, lastSet, written, apiVars, prepVars>>

NoFiles == [p \in {} |-> <<>>]

StoreInit ==
    /\ dirs \in SUBSET {DBX_PATH, CONF_PATH}
    /\ files = NoFiles
    /\ call = NoCall
    /\ lastSet = None
    /\ written = [k \in {} |-> None]
    /\ ApiIdle
    /\ PrepIdle

StoreNext ==
    \/ \E M \in StoreMaps, P \in Paths : WriteJson(M, P)
    \/ \E M \in StoreMaps, P \in Paths : UpdateJson(M, P)
    \/ \E P \in Paths : ReadJson(P)

SpecStore == StoreInit /\ [][StoreNext]_vars

(***************************************************************************)
(* The project files: the calls of ContextLockFile, InfoFile and           *)
(* DeploymentFile on a project directory.  lastSet is the context id last  *)
(* stored by a set_context call that returned (None before the first);     *)
(* written maps every top-level key InfoFile.update has been given to the  *)
(* value it was last given.                                                *)
(***************************************************************************)
ContextIds == {"c1", "c2"}

Items == {"environments", "name"}

InfoContents ==
    { Dict(<<<<"environments", Dict(<<<<"default", EnvA>>>>)>>>>),
      Dict(<<<<"environments", Dict(<<<<"test", EnvB>>>>)>>>>),
      Dict(<<<<"name", Str("p")>>>>) }

Environments == {"default", "test", "prod"}

DeployContents ==
    { Dict(<<<<"jobs", Str("[j]")>>>>),
      Dict(<<<<"cluster", Str("c")>>, <<"jobs", Str("[]")>>>>) }

\* a deployment file the user wrote before the project was configured
UserDeployment ==
    Dict(<<<<"default", Dict(<<<<"jobs", Str("[]")>>>>)>>,
           <<"test", Dict(<<<<"jobs", Str("[t]")>>, <<"libs", Str("[]")>>>>)>>>>)

SetContext(id) ==
    LET w == set_context(dirs, files, id)
    IN  /\ files' = w.fs
        /\ call' = Call("set_context", id, None, Exists(files, LOCK_FILE_PATH), w.out)
        /\ lastSet' = IF IsReturned(w.out) THEN Str(id) ELSE lastSet
        /\ UNCHANGED <<dirs, written, apiVars, prepVars>>

GetContext ==
    /\ call' = Call("get_context", "", None, Exists(files, LOCK_FILE_PATH),
                    get_context(files))
    /\ UNCHANGED <<dirs, files, lastSet, written, apiVars, prepVars>>

Initialize ==
    LET w == initialize(Disk(dirs, files))
    IN  /\ dirs' = w.ds
        /\ files' = w.fs
        /\ call' = Call("initialize", "", None, Exists(files, INFO_FILE_PATH), w.out)
        /\ UNCHANGED <<lastSet, written, apiVars, prepVars>>

InfoUpdate(content) ==
    LET w == info_update(dirs, files, content)
    IN  /\ files' = w.fs
        /\ call' = Call("info_update", "", content, Exists(files, INFO_FILE_PATH), w.out)
        /\ written' = IF IsRaised(w.out) THEN written
                      ELSE [k \in DOMAIN written \cup Keys(content) |->
                              IF k \in Keys(content) THEN Item(content, k)
                              ELSE written[k]]
        /\ UNCHANGED <<dirs, lastSet, apiVars, prepVars>>

InfoGet(item) ==
    /\ call' = Call("info_get", item, None, Exists(files, INFO_FILE_PATH),
                    info_get(files, item))
    /\ UNCHANGED <<dirs, files, lastSet, written, apiVars, prepVars>>

GetEnvironment(environment) ==
    /\ call' = Call("get_environment", environment, None,
                    Exists(files, DEFAULT_DEPLOYMENT_FILE_PATH),
                    get_environment(files, DEFAULT_DEPLOYMENT_FILE_PATH, environment))
    /\ UNCHANGED <<dirs, files, lastSet, written, apiVars, prepVars>>

UpdateEnvironment(environment, content) ==
    LET w == update_environment(dirs, files, DEFAULT_DEPLOYMENT_FILE_PATH,
                                environment, content)
    IN  /\ files' = w.fs
        /\ call' = Call("update_environment", environment, content,
                        Exists(files, DEFAULT_DEPLOYMENT_FILE_PATH), w.out)
        /\ UNCHANGED <<dirs, lastSet, written, apiVars, prepVars>>

FilesInit ==
    /\ \/ dirs = {} /\ files = NoFiles
       \/ /\ dirs = {CONF_PATH}
          /\ files = Put(NoFiles, DEFAULT_DEPLOYMENT_FILE_PATH, Dump(UserDeployment))
    /\ call = NoCall
    /\ lastSet = None
    /\ written = [k \in {} |-> None]
    /\ ApiIdle
    /\ PrepIdle

FilesNext ==
    \/ \E id \in ContextIds : SetContext(id)
    \/ GetContext
    \/ Initialize
    \/ \E content \in InfoContents : InfoUpdate(content)
    \/ \E item \in Items : InfoGet(item)
    \/ \E environment \in Environments : GetEnvironment(environment)
    \/ \E environment \in Environments, content \in DeployContents :
           UpdateEnvironment(environment, content)

SpecFiles == FilesInit /\ [][FilesNext]_vars

(***************************************************************************)
(* The retry decorator, ApiV1Client and FileUploader.upload_file.          *)
(* Delays are counted in hundredths of a second, a backoff factor is the   *)
(* fraction num/den.  requests lists, for the call made last, each request *)
(* sent with what the transport answered; sleeps lists the delays slept.   *)
(***************************************************************************)
Policy(t, d, num, den) ==
    [tries |-> t, delay |-> d * 100, num |-> num, den |-> den]

\* @retry(tries=10, delay=5, backoff=5)
CreateTries == 10

CreateDelay == 5

CreateBackoff == 5

\* @retry(tries=3, delay=1, backoff=0.3): the backoff in tenths
UploadTries == 3

UploadDelay == 1

UploadBackoffTenths == 3

\* create_context's policy with the backoff left out
CreatePolicyNoBackoff == Policy(CreateTries, CreateDelay, 1, 1)

CreatePolicy == Policy(CreateTries, CreateDelay, CreateBackoff, 1)

\* upload_file's policy with one try more
UploadPolicyFourTries == Policy(UploadTries + 1, UploadDelay, UploadBackoffTenths, 10)

UploadPolicy == Policy(UploadTries, UploadDelay, UploadBackoffTenths, 10)

\* what the transport can answer
Responses == {Str("ctx-1"), Str("ctx-2")}

Failures == {"HTTPError", "ConnectionError"}

Answers == {Returned(r) : r \in Responses} \cup {Raised(e) : e \in Failures}

Request(path, answer) == [path |-> path, answer |-> answer]

\* the call of a decorated function: the loop's locals are set
RetryEnter(name, policy) ==
    /\ pc = "idle"
    /\ fn' = name
    /\ pc' = "running"
    /\ tries' = policy.tries
    /\ delay' = policy.delay
    /\ sleeps' = <<>>
    /\ requests' = <<>>
    /\ result' = Returned(None)
    /\ UNCHANGED <<fileVars, prepVars>>

\* one turn of the retry loop around f, whose request gets `answer`: return
\* f's result, or count the failure and raise it when no try is left, or
\* sleep and lengthen the delay
RetryTurn(name, policy, path, answer, value) ==
    /\ pc = "running"
    /\ fn = name
    /\ tries > 0
    /\ requests' = Append(requests, Request(path, answer))
    /\ IF IsReturned(answer)
         THEN /\ result' = Returned(value)
              /\ pc' = "idle"
              /\ UNCHANGED <<tries, delay, sleeps>>
         ELSE /\ tries' = tries - 1
              /\ IF tries - 1 = 0
                   THEN /\ result' = answer
                        /\ pc' = "idle"
                        /\ UNCHANGED <<delay, sleeps>>
                   ELSE /\ sleeps' = Append(sleeps, delay)
                        /\ delay' = (delay * policy.num) \div policy.den
                        /\ UNCHANGED <<result, pc>>
    /\ UNCHANGED <<fn, fileVars, prepVars>>

CreateContextCall == RetryEnter("create_context", CreatePolicy)

CreateContextTurn ==
    \E answer \in Answers :
        RetryTurn("create_context", CreatePolicy, "/contexts/create", answer,
                  IF IsReturned(answer) THEN answer.returned ELSE None)

UploadFileCall == RetryEnter("upload_file", UploadPolicy)

\* mlflow.log_artifact returns nothing, or raises
UploadFileTurn ==
    \E answer \in {Returned(None)} \cup {Raised(e) : e \in Failures} :
        RetryTurn("upload_file", UploadPolicy, "log_artifact", answer, None)

\* get_context_status without its except clause
get_context_status_raising(answer) == answer

get_context_status(answer) ==
    IF answer = Raised("HTTPError") THEN Returned(None) ELSE answer

GetContextStatus ==
    \E answer \in Answers :
        /\ pc = "idle"
        /\ fn' = "get_context_status"
        /\ requests' = <<Request("/contexts/status", answer)>>
        /\ result' = get_context_status(answer)
        /\ sleeps' = <<>>
        /\ UNCHANGED <<pc, tries, delay, fileVars, prepVars>>

ApiInit ==
    /\ dirs = {}
    /\ files = NoFiles
    /\ call = NoCall
    /\ lastSet = None
    /\ written = [k \in {} |-> None]
    /\ ApiIdle
    /\ PrepIdle

ApiNext ==
    \/ CreateContextCall
    \/ CreateContextTurn
    \/ UploadFileCall
    \/ UploadFileTurn
    \/ GetContextStatus

SpecApi == ApiInit /\ [][ApiNext]_vars

(***************************************************************************)
(* prepare_environment.  ppc is the step the call has reached; trace lists *)
(* the calls it has made on the API client factory, the workspace service  *)
(* and the tracking backend.  envVars says whether the environment         *)
(* variables hold a configuration, profiles names the profiles of          *)
(* ~/.databrickscfg, experiments the experiments the backend has.          *)
(***************************************************************************)
EnvFull ==
    Dict(<<<<"profile", Str("DEFAULT")>>, <<"workspace_dir", Str("/dbx/a")>>,
           <<"artifact_location", Str("dbfs:/dbx/a")>>>>)

\* the project files prepare_environment may find
Projects ==
    { Dict(<<>>),
      init_content,
      Dict(<<<<"environments", Dict(<<<<"default", EnvFull>>>>)>>>>),
      Dict(<<<<"environments", Dict(<<<<"default", EnvFull>>, <<"test", EnvB>>,
                                     <<"empty", Dict(<<>>)>>>>)>>>>) }

PrepEnvironments == {"default", "test", "empty"}

\* bool(v) of a value read from the project file
Truthy(v) == IF IsDict(v) THEN v.items # <<>> ELSE IF IsStr(v) THEN v.str # "" ELSE FALSE

\* lines 201-204: the environment's entry, or the error raised
lookup_environment(fs, environment) ==
    LET r == info_get(fs, "environments")
    IN  IF IsRaised(r) THEN r
        ELSE IF ~IsDict(r.returned) THEN Raised("AttributeError")
        ELSE LET environment_data == DictGet(r.returned, environment)
             IN  IF ~Truthy(environment_data) THEN Raised("Exception")
                 ELSE Returned(environment_data)

\* lines 206-215 without the test of the profile's configuration
resolve_config_unchecked(env_config, known_profiles, environment_data) ==
    IF env_config THEN Returned("ENV")
    ELSE IF "profile" \notin Keys(environment_data) THEN Raised("KeyError")
    ELSE Returned("PROFILE")

\* lines 206-215: the config type, or the error raised
resolve_config(env_config, known_profiles, environment_data) ==
    IF env_config THEN Returned("ENV")
    ELSE IF "profile" \notin Keys(environment_data) THEN Raised("KeyError")
    ELSE IF Item(environment_data, "profile").str \in known_profiles
           THEN Returned("PROFILE")
           ELSE Raised("Exception")

PrepFail(e) ==
    /\ presult' = e
    /\ ppc' = "idle"

PrepareCall(environment) ==
    LET r == lookup_environment(files, environment)
    IN  /\ ppc = "idle"
        /\ penv' = environment
        /\ trace' = <<>>
        /\ ctype' = ""
        /\ IF IsRaised(r)
             THEN PrepFail(r) /\ edata' = None
             ELSE /\ edata' = r.returned
                  /\ ppc' = "config"
                  /\ presult' = Returned(None)
        /\ UNCHANGED <<envVars, profiles, experiments, fileVars, apiVars>>

\* lines 206-217: the configuration, then the API client
PrepareConfig ==
    LET r == resolve_config(envVars, profiles, edata)
    IN  /\ ppc = "config"
        /\ IF IsRaised(r)
             THEN PrepFail(r) /\ UNCHANGED <<ctype, trace>>
             ELSE /\ ctype' = r.returned
                  /\ trace' = Append(trace, "api_client")
                  /\ ppc' = "workspace"
                  /\ UNCHANGED presult
        /\ UNCHANGED <<penv, edata, envVars, profiles, experiments, fileVars, apiVars>>

\* line 218: _prepare_workspace_dir; the service's mkdirs succeeds or raises
PrepareWorkspaceDir ==
    /\ ppc = "workspace"
    /\ IF "workspace_dir" \notin Keys(edata)
         THEN PrepFail(Raised("KeyError")) /\ UNCHANGED trace
         ELSE /\ trace' = Append(trace, "mkdirs")
              /\ \/ ppc' = "tracking" /\ UNCHANGED presult
                 \/ PrepFail(Raised("HTTPError"))
    /\ UNCHANGED <<penv, edata, ctype, envVars, profiles, experiments, fileVars, apiVars>>

\* lines 220-225: mlflow.set_tracking_uri
PrepareTracking ==
    /\ ppc = "tracking"
    /\ IF ctype \in {"ENV", "PROFILE"}
         THEN /\ trace' = Append(trace, "set_tracking_uri")
              /\ ppc' = "experiment"
              /\ UNCHANGED presult
         ELSE PrepFail(Raised("NotImplementedError")) /\ UNCHANGED trace
    /\ UNCHANGED <<penv, edata, ctype, envVars, profiles, experiments, fileVars, apiVars>>

\* line 227: mlflow.get_experiment_by_name answers or raises
PrepareGetExperiment ==
    /\ ppc = "experiment"
    /\ trace' = Append(trace, "get_experiment_by_name")
    /\ \/ ppc' = (IF Item(edata, "workspace_dir").str \in experiments
                    THEN "set" ELSE "create")
          /\ UNCHANGED presult
       \/ PrepFail(Raised("HTTPError"))
    /\ UNCHANGED <<penv, edata, ctype, envVars, profiles, experiments, fileVars, apiVars>>

\* lines 229-230: mlflow.create_experiment answers or raises
PrepareCreateExperiment ==
    /\ ppc = "create"
    /\ IF "artifact_location" \notin Keys(edata)
         THEN PrepFail(Raised("KeyError")) /\ UNCHANGED <<trace, experiments>>
         ELSE /\ trace' = Append(trace, "create_experiment")
              /\ \/ /\ ppc' = "set"
                    /\ experiments' = experiments \cup {Item(edata, "workspace_dir").str}
                    /\ UNCHANGED presult
                 \/ PrepFail(Raised("HTTPError")) /\ UNCHANGED experiments
    /\ UNCHANGED <<penv, edata, ctype, envVars, profiles, fileVars, apiVars>>

\* lines 232-234: mlflow.set_experiment, then the API client is returned
PrepareSetExperiment ==
    /\ ppc = "set"
    /\ trace' = Append(trace, "set_experiment")
    /\ \/ presult' = Returned(Str("api_client")) /\ ppc' = "idle"
       \/ PrepFail(Raised("HTTPError"))
    /\ UNCHANGED <<penv, edata, ctype, envVars, profiles, experiments, fileVars, apiVars>>

PrepInit ==
    /\ dirs = {DBX_PATH, CONF_PATH}
    /\ \/ files = NoFiles
       \/ \E project \in Projects : files = Put(NoFiles, INFO_FILE_PATH, Dump(project))
    /\ call = NoCall
    /\ lastSet = None
    /\ written = [k \in {} |-> None]
    /\ ApiIdle
    /\ ppc = "idle"
    /\ penv = ""
    /\ edata = None
    /\ ctype = ""
    /\ trace = <<>>
    /\ presult = Returned(None)
    /\ envVars \in BOOLEAN
    /\ profiles \in {{}, {"DEFAULT"}}
    /\ experiments \in {{}, {"/dbx/a"}}

PrepNext ==
    \/ \E environment \in PrepEnvironments : PrepareCall(environment)
    \/ PrepareConfig
    \/ PrepareWorkspaceDir
    \/ PrepareTracking
    \/ PrepareGetExperiment
    \/ PrepareCreateExperiment
    \/ PrepareSetExperiment

SpecPrep == PrepInit /\ [][PrepNext]_vars

(***************************************************************************)
(* Properties of the JSON store.                                           *)
(***************************************************************************)

\* C2: update_json(M, P) on a stored document D leaves at P a document with
\* exactly the keys of D and of M; a key of D that M lacks keeps its value and
\* a key of M holds M's value whole, a nested dict included.
C2_UpdateIsShallowMerge ==
    [][(call'.op = "update_json" /\ Exists(files, call'.key)) =>
         LET P == call'.key
             M == call'.val
             D == Load(files[P])
         IN  /\ IsReturned(call'.out)
             /\ Exists(files', P)
             /\ LET N == Load(files'[P])
                IN  /\ Keys(N) = Keys(D) \cup Keys(M)
                    /\ \A k \in Keys(D) \ Keys(M) : Item(N, k) = Item(D, k)
                    /\ \A k \in Keys(M) : Item(N, k) = Item(M, k)]_vars

\* an update_json with {"a": EnvB} that returned and left a document holding
\* "b" as well: the file held "a" and "b" before, "a" was replaced, "b" kept
C2_Witness ==
    /\ call.op = "update_json"
    /\ IsReturned(call.out)
    /\ call.val = Dict(<<<<"a", EnvB>>>>)
    /\ Exists(files, call.key)
    /\ Keys(Load(files[call.key])) = {"a", "b"}
    /\ Item(Load(files[call.key]), "a") = EnvB

\* C3 (as amended): update_json(M, P) at a path with no file does what
\* write_json(M, P) does: with P's directory present it returns, and P then
\* reads as M; with the directory missing both raise FileNotFoundError and no
\* file is created.
C3_UpdateOnMissingIsWrite ==
    [][(call'.op = "update_json" /\ ~Exists(files, call'.key)) =>
         LET P == call'.key
             M == call'.val
             w == write_json(dirs, files, M, P)
         IN  /\ files' = w.fs
             /\ call'.out = w.out
             /\ IF Parent(P) \in dirs
                  THEN /\ IsReturned(call'.out)
                       /\ Exists(files', P)
                       /\ PyEq(read_json(files', P).returned, M)
                  ELSE /\ call'.out = Raised("FileNotFoundError")
                       /\ files' = files]_vars

\* C3 as stated: update_json(M, P) at a path with no file never fails, and P
\* then exists and reads as M.
C3_UpdateOnMissingNeverFails ==
    [][(call'.op = "update_json" /\ ~Exists(files, call'.key)) =>
         /\ IsReturned(call'.out)
         /\ Exists(files', call'.key)
         /\ PyEq(read_json(files', call'.key).returned, call'.val)]_vars

\* an update_json that found no file, returned, and left its map at the path
C3_Witness ==
    /\ call.op = "update_json"
    /\ ~call.had
    /\ IsReturned(call.out)
    /\ Keys(call.val) = {"a", "b"}
    /\ Exists(files, call.key)
    /\ PyEq(Load(files[call.key]), call.val)

(***************************************************************************)
(* Properties of the project files.                                        *)
(***************************************************************************)

\* C1: get_context() returns None when the lock file does not exist and the
\* context id last set by set_context otherwise, whatever calls of
\* set_context, InfoFile.initialize and InfoFile.update came before.
C1_GetContextIsLastSet ==
    get_context(files) =
        Returned(IF Exists(files, LOCK_FILE_PATH) THEN lastSet ELSE None)

\* initialize was called after a context id was set, and the id is still read
C1_Witness ==
    /\ call.op = "initialize"
    /\ call.had
    /\ IsStr(lastSet)
    /\ get_context(files) = Returned(lastSet)

\* C6: once created, the project file keeps every top-level key
\* InfoFile.update has written, with the value update last gave it.
C6_InfoKeepsWrittenKeys ==
    \A k \in DOMAIN written :
        /\ Exists(files, INFO_FILE_PATH)
        /\ PyEq(DictGet(Load(files[INFO_FILE_PATH]), k), written[k])

\* C7: update_environment(E, content) on a file with an entry for E leaves
\* under E the old entry shallow-merged with content, and every other entry
\* as it was.
C7_UpdateEnvironmentMerges ==
    [][(/\ call'.op = "update_environment"
        /\ Exists(files, DEFAULT_DEPLOYMENT_FILE_PATH)
        /\ call'.key \in Keys(Load(files[DEFAULT_DEPLOYMENT_FILE_PATH]))) =>
         LET E == call'.key
             content == call'.val
             D == Load(files[DEFAULT_DEPLOYMENT_FILE_PATH])
             old == Item(D, E)
         IN  /\ IsReturned(call'.out)
             /\ Exists(files', DEFAULT_DEPLOYMENT_FILE_PATH)
             /\ LET N == Load(files'[DEFAULT_DEPLOYMENT_FILE_PATH])
                    new == DictGet(N, E)
                IN  /\ Keys(N) = Keys(D)
                    /\ IsDict(new)
                    /\ Keys(new) = Keys(old) \cup Keys(content)
                    /\ \A k \in Keys(content) : Item(new, k) = Item(content, k)
                    /\ \A k \in Keys(old) \ Keys(content) : Item(new, k) = Item(old, k)
                    /\ \A e \in Keys(D) \ {E} : Item(N, e) = Item(D, e)]_vars

\* update_environment("test", {"cluster", "jobs"}) returned: the entry keeps
\* its "libs", holds the new "jobs" and "cluster", and "default" is still there
C7_Witness ==
    /\ call.op = "update_environment"
    /\ call.key = "test"
    /\ Keys(call.val) = {"cluster", "jobs"}
    /\ IsReturned(call.out)
    /\ LET N == Load(files[DEFAULT_DEPLOYMENT_FILE_PATH])
       IN  /\ Keys(N) = {"default", "test"}
           /\ Keys(Item(N, "test")) = {"jobs", "libs", "cluster"}
           /\ Item(Item(N, "test"), "jobs") = Str("[]")
           /\ Item(Item(N, "default"), "jobs") = Str("[j]")

\* C8: update_environment(E, content) on a file with no entry for E raises,
\* and the file is left as it was.
C8_UpdateEnvironmentAbsentFails ==
    [][(/\ call'.op = "update_environment"
        /\ Exists(files, DEFAULT_DEPLOYMENT_FILE_PATH)
        /\ call'.key \notin Keys(Load(files[DEFAULT_DEPLOYMENT_FILE_PATH]))) =>
         /\ IsRaised(call'.out)
         /\ files' = files
         /\ dirs' = dirs]_vars

\* update_environment raised on an environment the file has no entry for
C8_Witness ==
    /\ call.op = "update_environment"
    /\ call.had
    /\ call.out = Raised("AttributeError")
    /\ call.key \notin Keys(Load(files[DEFAULT_DEPLOYMENT_FILE_PATH]))

(***************************************************************************)
(* Properties of the API shim and of the uploader.                         *)
(***************************************************************************)
Failed(i) == IsRaised(requests[i].answer)

\* the waits of create_context, in hundredths of a second: 5 s, 25 s, 125 s, ...
CreateWaits ==
    <<500, 2500, 12500, 62500, 312500, 1562500, 7812500, 39062500, 195312500>>

\* C4: create_context sends at most 10 requests, one more whenever the last
\* one failed, waiting 5, 25, 125, ... seconds between them; after 10 failures
\* (9 waits) it raises the last failure, and the first answer that is no
\* failure is returned at once.
C4_CreateContextRetries ==
    fn = "create_context" =>
        /\ Len(sleeps) <= 9
        /\ \A i \in 1..Len(sleeps) : sleeps[i] = CreateWaits[i]
        /\ \A i \in 1..Len(requests) : requests[i].path = "/contexts/create"
        /\ pc = "running" =>
              /\ Len(requests) = Len(sleeps)
              /\ Len(requests) < 10
              /\ \A i \in 1..Len(requests) : Failed(i)
        /\ (pc = "idle" /\ IsRaised(result)) =>
              /\ Len(requests) = 10
              /\ Len(sleeps) = 9
              /\ \A i \in 1..10 : Failed(i)
              /\ result = requests[10].answer
        /\ (pc = "idle" /\ IsReturned(result)) =>
              /\ Len(requests) = Len(sleeps) + 1
              /\ Len(requests) <= 10
              /\ \A i \in 1..(Len(requests) - 1) : Failed(i)
              /\ result = requests[Len(requests)].answer

\* create_context gave up after ten failures, the last one a ConnectionError
C4_Witness ==
    /\ fn = "create_context"
    /\ pc = "idle"
    /\ result = Raised("ConnectionError")
    /\ Len(requests) = 10
    /\ sleeps = CreateWaits

\* C5: get_context_status sends one request; an HTTP error makes it return
\* None, and an answer of the transport is returned as it is.
C5_ContextStatusSwallowsHttpError ==
    fn = "get_context_status" =>
        /\ Len(requests) = 1
        /\ sleeps = <<>>
        /\ requests[1].path = "/contexts/status"
        /\ requests[1].answer = Raised("HTTPError") => result = Returned(None)
        /\ IsReturned(requests[1].answer) => result = requests[1].answer

\* get_context_status met an HTTP error and returned None
C5_Witness ==
    /\ fn = "get_context_status"
    /\ requests = <<Request("/contexts/status", Raised("HTTPError"))>>
    /\ result = Returned(None)

\* C10 (as amended): upload_file makes at most 3 attempts; an upload that
\* always fails is waited for 1 s and then 0.3 s (two waits, none after the
\* third failure, which is raised), and an attempt that succeeds ends the call
\* at once.
C10_UploadRetries ==
    fn = "upload_file" =>
        /\ Len(sleeps) <= 2
        /\ \A i \in 1..Len(sleeps) : sleeps[i] = <<100, 30>>[i]
        /\ pc = "running" =>
              /\ Len(requests) = Len(sleeps)
              /\ Len(requests) < 3
              /\ \A i \in 1..Len(requests) : Failed(i)
        /\ (pc = "idle" /\ IsRaised(result)) =>
              /\ Len(requests) = 3
              /\ sleeps = <<100, 30>>
              /\ \A i \in 1..3 : Failed(i)
              /\ result = requests[3].answer
        /\ (pc = "idle" /\ IsReturned(result)) =>
              /\ Len(requests) = Len(sleeps) + 1
              /\ Len(requests) <= 3
              /\ \A i \in 1..(Len(requests) - 1) : Failed(i)
              /\ IsReturned(requests[Len(requests)].answer)
              /\ result = Returned(None)

\* C10 as stated: an upload that always fails is waited for 1 s, 0.3 s and
\* 0.09 s before the failure is raised.
C10_UploadWaitsThrice ==
    (fn = "upload_file" /\ pc = "idle" /\ IsRaised(result)) =>
        sleeps = <<100, 30, 9>>

\* upload_file gave up after three failures
C10_Witness ==
    /\ fn = "upload_file"
    /\ pc = "idle"
    /\ IsRaised(result)
    /\ Len(requests) = 3
    /\ sleeps = <<100, 30>>

(***************************************************************************)
(* Properties of prepare_environment.                                      *)
(***************************************************************************)
Has(e) == \E i \in 1..Len(trace) : trace[i] = e

Pos(e) == CHOOSE i \in 1..Len(trace) : trace[i] = e

Before(a, b) == Has(b) => (Has(a) /\ Pos(a) < Pos(b))

\* the environments recorded in the project file, or None
Recorded ==
    IF Exists(files, INFO_FILE_PATH)
      THEN DictGet(Load(files[INFO_FILE_PATH]), "environments")
      ELSE None

NoEntry == ~IsDict(Recorded) \/ penv \notin Keys(Recorded)

NoConfig ==
    /\ ~envVars
    /\ LET e == Item(Recorded, penv)
       IN  \/ "profile" \notin Keys(e)
           \/ Item(e, "profile").str \notin profiles

\* C9: prepare_environment fails before any API client is built and before
\* the workspace service or the tracking backend is called when the
\* environment has no entry in the project file or no configuration is
\* found; in every run the client is built before mkdirs, mkdirs comes before
\* set_tracking_uri, that before the experiment is looked up, created and
\* set; and the client is returned only after all of these.
C9_PrepareIsLinearAndFailsFast ==
    /\ (penv # "" /\ NoEntry) =>
          /\ ppc = "idle"
          /\ IsRaised(presult)
          /\ trace = <<>>
    /\ (penv # "" /\ ~NoEntry /\ NoConfig) =>
          /\ ppc \in {"config", "idle"}
          /\ ppc = "idle" => IsRaised(presult)
          /\ trace = <<>>
    /\ \A i, j \in 1..Len(trace) : trace[i] = trace[j] => i = j
    /\ Before("api_client", "mkdirs")
    /\ Before("mkdirs", "set_tracking_uri")
    /\ Before("set_tracking_uri", "get_experiment_by_name")
    /\ Before("get_experiment_by_name", "create_experiment")
    /\ Before("get_experiment_by_name", "set_experiment")
    /\ (Has("create_experiment") /\ Has("set_experiment")) =>
          Pos("create_experiment") < Pos("set_experiment")
    /\ (ppc = "idle" /\ presult = Returned(Str("api_client"))) =>
          /\ Has("api_client")
          /\ Has("mkdirs")
          /\ Has("set_tracking_uri")
          /\ Has("get_experiment_by_name")
          /\ Has("set_experiment")

\* a run configured from the profile returned the client after every step,
\* the creation of the experiment included
C9_Witness ==
    /\ ppc = "idle"
    /\ presult = Returned(Str("api_client"))
    /\ ctype = "PROFILE"
    /\ trace = <<"api_client", "mkdirs", "set_tracking_uri",
                 "get_experiment_by_name", "create_experiment", "set_experiment">>

====
